---- MODULE Spec2Model ----
(***************************************************************************)
(* A model of the ray tracer: sphere and scene intersection (hittable.rs), *)
(* the recursive colour evaluation (ray.rs), material scattering           *)
(* (material.rs) and the camera with its parallel render (camera.rs).      *)
(*                                                                         *)
(* Numbers.  An f64 is modelled as a fixed-point number: the integer n     *)
(* stands for n / One.  Products and quotients round toward zero (IEEE     *)
(* rounds to nearest; both are sign-symmetric), square roots round down.   *)
(* The three IEEE values that are no numbers are kept: NaN, PInf, NInf.    *)
(* Zero has no sign here (the model has no -0.0).                          *)
(***************************************************************************)
EXTENDS Integers, Sequences, FiniteSets, TLC

\* h_*: one HittableList::hit call.  c_*: one Ray::color evaluation.
\* g_*: Camera::get_ray calls.  r_*: one Camera::render.
VARIABLES h_ray, h_interval, h_objects, h_idx, h_closest, h_res, h_call,
          c_world, c_depth0, c_stack, c_pending, c_pc, c_ret, c_hits,
          c_scatters, c_calls, c_end, c_last,
          g_cam, g_ray, g_calls, g_disk_calls,
          r_cam, r_world, r_seed, r_img, r_task, r_slot, r_pb, r_pc, r_next,
          r_out

hvars == <<h_ray, h_interval, h_objects, h_idx, h_closest, h_res, h_call>>

cvars == <<c_world, c_depth0, c_stack, c_pending, c_pc, c_ret, c_hits,
           c_scatters, c_calls, c_end, c_last>>

gvars == <<g_cam, g_ray, g_calls, g_disk_calls>>

rvars == <<r_cam, r_world, r_seed, r_img, r_task, r_slot, r_pb, r_pc, r_next,
           r_out>>

vars == <<hvars, cvars, gvars, rvars>>

(***************************************************************************)
(* Bounds of the model.                                                    *)
(***************************************************************************)
\* The fixed-point representation of 1.0: the model's resolution is 1/One.
One == 1000

\* The longest scene list of a HittableList::hit call.
MaxObjects == 2

\* The largest depth Ray::color is started with.
MaxDepth == 3

\* The widest image of the model's cameras.
MaxWidth == 2

\* The calls of get_ray followed on one camera.
MaxGetRays == 2

\* The pixels of the largest image rendered.
MaxPixels == 4

(***************************************************************************)
(* f64                                                                     *)
(***************************************************************************)
PInf == 2^30
NInf == 0 - 2^30
NaN == 2^30 + 1

IsNaN(x) == x = NaN
IsInf(x) == x = PInf \/ x = NInf
IsFinite(x) == ~IsNaN(x) /\ ~IsInf(x)

Abs(n) == IF n < 0 THEN 0 - n ELSE n
Sign(n) == IF n < 0 THEN 0 - 1 ELSE 1

\* Integer quotient rounded toward zero, b # 0.
TruncDiv(a, b) ==
    LET q == Abs(a) \div Abs(b)
    IN  IF (a < 0) = (b < 0) THEN q ELSE 0 - q

RECURSIVE SqrtSearch(_, _, _)
\* The largest r in lo..hi-1 with r * r <= n, given lo * lo <= n < hi * hi.
SqrtSearch(n, lo, hi) ==
    IF hi - lo <= 1 THEN lo
    ELSE LET mid == (lo + hi) \div 2
         IN  IF mid * mid <= n THEN SqrtSearch(n, mid, hi)
             ELSE SqrtSearch(n, lo, mid)

ISqrt(n) == SqrtSearch(n, 0, IF n < 46340 THEN n + 1 ELSE 46341)

FNeg(x) ==
    IF IsNaN(x) THEN NaN
    ELSE IF x = PInf THEN NInf
    ELSE IF x = NInf THEN PInf
    ELSE 0 - x

FAdd(x, y) ==
    IF IsNaN(x) \/ IsNaN(y) THEN NaN
    ELSE IF IsInf(x) THEN (IF IsInf(y) /\ y # x THEN NaN ELSE x)
    ELSE IF IsInf(y) THEN y
    ELSE x + y

FSub(x, y) == FAdd(x, FNeg(y))

FMul(x, y) ==
    IF IsNaN(x) \/ IsNaN(y) THEN NaN
    ELSE IF IsInf(x) \/ IsInf(y)
         THEN (IF x = 0 \/ y = 0 THEN NaN
               ELSE IF (x < 0) = (y < 0) THEN PInf ELSE NInf)
    ELSE TruncDiv(x * y, One)

FDiv(x, y) ==
    IF IsNaN(x) \/ IsNaN(y) THEN NaN
    ELSE IF IsInf(x)
         THEN (IF IsInf(y) THEN NaN
               ELSE IF (x < 0) = (y < 0) THEN PInf ELSE NInf)
    ELSE IF IsInf(y) THEN 0
    ELSE IF y = 0
         THEN (IF x = 0 THEN NaN ELSE IF x > 0 THEN PInf ELSE NInf)
    ELSE TruncDiv(x * One, y)

\* f64::sqrt
FSqrt(x) ==
    IF IsNaN(x) \/ x < 0 THEN NaN
    ELSE IF x = PInf THEN PInf
    ELSE ISqrt(x * One)

\* The comparisons of f64: every comparison with NaN is false.
FLt(x, y) == ~IsNaN(x) /\ ~IsNaN(y) /\ x < y
FLe(x, y) == ~IsNaN(x) /\ ~IsNaN(y) /\ x <= y
FGt(x, y) == FLt(y, x)

\* f64::min and f64::max return the other operand when one is NaN.
FMin(x, y) == IF IsNaN(x) THEN y ELSE IF IsNaN(y) THEN x ELSE IF x < y THEN x ELSE y
FMax(x, y) == IF IsNaN(x) THEN y ELSE IF IsNaN(y) THEN x ELSE IF x > y THEN x ELSE y

\* f64::abs
FAbs(x) == IF IsNaN(x) THEN NaN ELSE IF IsInf(x) THEN PInf ELSE Abs(x)

\* f64::powi(2) and f64::powi(5)
Powi2(x) == FMul(x, x)
Powi5(x) == FMul(FMul(Powi2(x), Powi2(x)), x)

(***************************************************************************)
(* vec3.rs                                                                 *)
(***************************************************************************)
Vec3(x, y, z) == <<x, y, z>>

VZero == Vec3(0, 0, 0)

VAdd(a, b) == Vec3(FAdd(a[1], b[1]), FAdd(a[2], b[2]), FAdd(a[3], b[3]))
VSub(a, b) == Vec3(FSub(a[1], b[1]), FSub(a[2], b[2]), FSub(a[3], b[3]))
VScale(a, f) == Vec3(FMul(a[1], f), FMul(a[2], f), FMul(a[3], f))
VDiv(a, f) == Vec3(FDiv(a[1], f), FDiv(a[2], f), FDiv(a[3], f))
VNeg(a) == Vec3(FNeg(a[1]), FNeg(a[2]), FNeg(a[3]))

squared_length(a) == FAdd(FAdd(Powi2(a[1]), Powi2(a[2])), Powi2(a[3]))

length(a) == FSqrt(squared_length(a))

unit(a) == VDiv(a, length(a))

dot(a, b) == FAdd(FAdd(FMul(a[1], b[1]), FMul(a[2], b[2])), FMul(a[3], b[3]))

\* Vec3::mul(&self, other): the component-wise product.
mul(a, b) == Vec3(FMul(a[1], b[1]), FMul(a[2], b[2]), FMul(a[3], b[3]))

cross(a, b) ==
    Vec3(FSub(FMul(a[2], b[3]), FMul(a[3], b[2])),
         FSub(FMul(a[3], b[1]), FMul(a[1], b[3])),
         FSub(FMul(a[1], b[2]), FMul(a[2], b[1])))

to_gamma(a) == Vec3(FSqrt(FMax(a[1], 0)), FSqrt(FMax(a[2], 0)), FSqrt(FMax(a[3], 0)))

\* The constant S = 1e-8 of near_zero, rounded up to the model's smallest
\* positive number.
NearZeroS == 1

near_zero(a) ==
    /\ FLt(FAbs(a[1]), NearZeroS)
    /\ FLt(FAbs(a[2]), NearZeroS)
    /\ FLt(FAbs(a[3]), NearZeroS)

reflect(a, n) == VSub(a, VScale(VScale(n, 2 * One), dot(a, n)))

\* The last two lines of refract: r_out_perp + r_out_parallel.
RefractSum(n, r_out_perp) ==
    VAdd(r_out_perp,
         VScale(n, FNeg(FSqrt(FAbs(FSub(One, squared_length(r_out_perp)))))))

refract(a, n, etai_over_etat) ==
    RefractSum(n, VScale(VAdd(a, VScale(n, FMin(dot(VNeg(a), n), One))),
                         etai_over_etat))

(***************************************************************************)
(* vec3.rs: rand_unit_vec, rand_in_unit_disk, and rand::random::<f64>()    *)
(***************************************************************************)
\* The lower limit 1e-160 of the squared length rand_unit_vec accepts: below
\* the model's resolution, so 0.
LenSqMin == 0

\* Samples of the cube [-1, 1)^3 that the loop of rand_unit_vec may draw.
CubeSamples ==
    {Vec3(0 - One, 0, 0), Vec3(0, 0 - One, 0), Vec3(0, 0, 0 - One),
     Vec3(0, One \div 2, 0), Vec3(0, 0, One \div 2), VZero,
     Vec3(0 - One, 0 - One, 0)}

\* The sample the loop of rand_unit_vec returns on: 1e-160 < lensq <= 1.
UnitVecAccepts(v) ==
    FLt(LenSqMin, squared_length(v)) /\ FLe(squared_length(v), One)

\* The values rand_unit_vec returns: vec / lensq.sqrt() of an accepted sample.
rand_unit_vec ==
    {VDiv(v, FSqrt(squared_length(v))) : v \in {w \in CubeSamples : UnitVecAccepts(w)}}

\* Samples of the square [-1, 1)^2 that the loop of rand_in_unit_disk may draw.
SquareSamples ==
    {Vec3(0, 0, 0), Vec3(One \div 2, 0, 0), Vec3(0, 0 - One, 0),
     Vec3(0 - One, 0 - One, 0)}

\* The values rand_in_unit_disk returns: a sample with lensq <= 1.
rand_in_unit_disk == {v \in SquareSamples : FLe(squared_length(v), One)}

\* The values rand::random::<f64>() returns, in [0, 1).
rand_f64 == {0, One \div 10, One \div 2, One - 1}

(***************************************************************************)
(* material.rs: the three materials, as records of one shape               *)
(***************************************************************************)
Lambertian_new(albedo) ==
    [kind |-> "Lambertian", albedo |-> albedo, fuzz |-> 0, ir |-> 0]

Metal_new(albedo, fuzz) ==
    [kind |-> "Metal", albedo |-> albedo, fuzz |-> fuzz, ir |-> 0]

Dielectric_new(ir) ==
    [kind |-> "Dielectric", albedo |-> VZero, fuzz |-> 0, ir |-> ir]

(***************************************************************************)
(* ray.rs: Ray::new, Ray::at                                               *)
(***************************************************************************)
Ray_new(origin, direction) == [origin |-> origin, direction |-> direction]

Ray_at(ray, t) == VAdd(ray.origin, VScale(ray.direction, t))

(***************************************************************************)
(* hittable.rs                                                             *)
(***************************************************************************)
\* Interval = Range<f64>, start..end
Interval(start, end) == [start |-> start, end |-> end]

\* interval.start..=closest_so_far: the end belongs to the interval.
Contains_Closed(interval, x) == FLe(interval.start, x) /\ FLe(x, interval.end)

\* Range::contains: start <= x < end
Contains(interval, x) == FLe(interval.start, x) /\ FLt(x, interval.end)

\* Option<HitRecord>
None == [some |-> FALSE]

HitRecord_new(p, normal, t, front_face, material) ==
    [some |-> TRUE, p |-> p, normal |-> normal, t |-> t,
     front_face |-> front_face, material |-> material]

set_face_normal(rec, ray, outward_normal) ==
    LET front_face == FLt(dot(ray.direction, outward_normal), 0)
    IN  [rec EXCEPT !.front_face = front_face,
                    !.normal = IF front_face THEN outward_normal
                               ELSE VNeg(outward_normal)]

Sphere_new(center, radius, material) ==
    [center |-> center, radius |-> FMax(radius, 0), material |-> material]

\* discriminant = half_b * half_b - a * c
QuadraticOf(a, half_b, c) ==
    [a |-> a, half_b |-> half_b, c |-> c,
     discriminant |-> FSub(FMul(half_b, half_b), FMul(a, c))]

\* a, half_b and c of Sphere::hit, from oc = ray.origin() - self.center.
QuadraticOc(sphere, ray, oc) ==
    QuadraticOf(squared_length(ray.direction), dot(oc, ray.direction),
                FSub(squared_length(oc), FMul(sphere.radius, sphere.radius)))

\* The coefficients Sphere::hit computes, and its discriminant.
Quadratic(sphere, ray) == QuadraticOc(sphere, ray, VSub(ray.origin, sphere.center))

\* (-half_b - sqrtd) / a
SmallRoot(q) == FDiv(FSub(FNeg(q.half_b), FSqrt(q.discriminant)), q.a)

\* (-half_b + sqrtd) / a
LargeRoot(q) == FDiv(FAdd(FNeg(q.half_b), FSqrt(q.discriminant)), q.a)

\* (p - self.center) / self.radius
OutwardNormalAt(sphere, p) == VDiv(VSub(p, sphere.center), sphere.radius)

\* The outward normal of Sphere::hit at the root it accepted.
OutwardNormal(sphere, ray, root) == OutwardNormalAt(sphere, Ray_at(ray, root))

\* HitRecord::new(...) followed by res.set_face_normal(ray, outward_normal).
SphereRecordOf(sphere, ray, root, p, outward_normal) ==
    set_face_normal(
        HitRecord_new(p, outward_normal, root, FALSE, sphere.material),
        ray, outward_normal)

SphereRecordAt(sphere, ray, root, p) ==
    SphereRecordOf(sphere, ray, root, p, OutwardNormalAt(sphere, p))

\* The record Sphere::hit builds for the root it accepted.
SphereRecord(sphere, ray, root) ==
    SphereRecordAt(sphere, ray, root, Ray_at(ray, root))

\* Sphere::hit once the discriminant is known not to be negative: the choice
\* between the two roots.
SphereHitRoots(sphere, ray, interval, small, large) ==
    IF Contains(interval, small) THEN SphereRecord(sphere, ray, small)
    ELSE IF Contains(interval, large) THEN SphereRecord(sphere, ray, large)
    ELSE None

\* Sphere::hit without the second root: None when the smaller root is outside.
SphereHitQ_SmallRootOnly(sphere, ray, interval, q) ==
    IF FLt(q.discriminant, 0) THEN None
    ELSE SphereHitRoots(sphere, ray, interval, SmallRoot(q), SmallRoot(q))

\* Sphere::hit, q its coefficients.
SphereHitQ(sphere, ray, interval, q) ==
    IF FLt(q.discriminant, 0) THEN None
    ELSE SphereHitRoots(sphere, ray, interval, SmallRoot(q), LargeRoot(q))

Sphere_hit(sphere, ray, interval) ==
    SphereHitQ(sphere, ray, interval, Quadratic(sphere, ray))

\* The state of the loop of HittableList::hit before the first object.
HitLoopStart(interval) == [closest_so_far |-> interval.end, res |-> None]

\* The body of `if let Some(hit_record) = ...`: the hit becomes the result.
HitLoopAccept(st, hit_record) ==
    IF hit_record.some
    THEN [closest_so_far |-> hit_record.t, res |-> hit_record]
    ELSE st

\* The interval an iteration tests its object over: the whole original one.
TestedInterval_NoShrink(st, interval) == interval

\* The interval an iteration tests its object over:
\* interval.start..closest_so_far.
TestedInterval(st, interval) == Interval(interval.start, st.closest_so_far)

\* One iteration of the loop of HittableList::hit.
HitLoopStep(st, object, ray, interval) ==
    HitLoopAccept(st, Sphere_hit(object, ray, TestedInterval(st, interval)))

RECURSIVE HitLoop(_, _, _, _, _)
\* The loop of HittableList::hit from object number n + 1 on.
HitLoop(st, objects, n, ray, interval) ==
    IF n >= Len(objects) THEN st
    ELSE HitLoop(HitLoopStep(st, objects[n + 1], ray, interval),
                 objects, n + 1, ray, interval)

HittableList_hit(objects, ray, interval) ==
    HitLoop(HitLoopStart(interval), objects, 0, ray, interval).res

(***************************************************************************)
(* material.rs: scatter.  A result is None or Some((attenuation, ray)).    *)
(***************************************************************************)
NoScatter == [some |-> FALSE]

SomeScatter(attenuation, scattered) ==
    [some |-> TRUE, attenuation |-> attenuation, scattered |-> scattered]

\* if scatter_direction.near_zero() { scatter_direction = hit_record.normal(); }
LambertianDirection(normal, sum) == IF near_zero(sum) THEN normal ELSE sum

\* Lambertian::scatter, u the value rand_unit_vec returned.
Lambertian_scatter(mat, ray, hit_record, u) ==
    SomeScatter(mat.albedo,
                Ray_new(hit_record.p,
                        LambertianDirection(hit_record.normal,
                                            VAdd(hit_record.normal, u))))

\* The end of Metal::scatter: the ray is returned when it leaves the surface.
MetalResult(mat, hit_record, scattered) ==
    IF FGt(dot(scattered.direction, hit_record.normal), 0)
    THEN SomeScatter(mat.albedo, scattered)
    ELSE NoScatter

\* Metal::scatter, u the value rand_unit_vec returned.
Metal_scatter(mat, ray, hit_record, u) ==
    MetalResult(mat, hit_record,
                Ray_new(hit_record.p,
                        VAdd(reflect(unit(ray.direction), hit_record.normal),
                             VScale(u, mat.fuzz))))

\* Dielectric::reflectance, r0 given.
ReflectanceOf(r0, cosine) ==
    FAdd(r0, FMul(FSub(One, r0), Powi5(FSub(One, cosine))))

\* Dielectric::reflectance
reflectance(cosine, ref_idx) ==
    ReflectanceOf(Powi2(FDiv(FSub(One, ref_idx), FAdd(One, ref_idx))), cosine)

\* The refractive ratio Dielectric::scatter uses.
EtaiOverEtat(mat, hit_record) ==
    IF hit_record.front_face THEN FDiv(One, mat.ir) ELSE mat.ir

\* cannot_refract || Self::reflectance(cos_theta, etai_over_etat) > random,
\* x the value rand::random::<f64>() returned.
ReflectsAt(etai_over_etat, cos_theta, x) ==
    \/ FGt(FMul(etai_over_etat, FSqrt(FSub(One, Powi2(cos_theta)))), One)
    \/ FGt(reflectance(cos_theta, etai_over_etat), x)

\* The direction Dielectric::scatter gives the scattered ray.
DielectricDirection(unit_direction, normal, etai_over_etat, x) ==
    IF ReflectsAt(etai_over_etat,
                  FMin(dot(VNeg(unit_direction), normal), One), x)
    THEN reflect(unit_direction, normal)
    ELSE refract(unit_direction, normal, etai_over_etat)

\* Whether Dielectric::scatter takes its reflect branch.
DielectricReflects(mat, ray, hit_record, x) ==
    ReflectsAt(EtaiOverEtat(mat, hit_record),
               FMin(dot(VNeg(unit(ray.direction)), hit_record.normal), One), x)

\* Dielectric::scatter, x the value rand::random::<f64>() returned.
Dielectric_scatter(mat, ray, hit_record, x) ==
    SomeScatter(Vec3(One, One, One),
                Ray_new(hit_record.p,
                        DielectricDirection(unit(ray.direction),
                                            hit_record.normal,
                                            EtaiOverEtat(mat, hit_record), x)))

\* The random values a material's scatter may draw, rnds the values its
\* generators may return: Dielectric draws an f64, the others a unit vector.
ScatterDraws(mat, rnds) == IF mat.kind = "Dielectric" THEN rnds.xs ELSE rnds.vecs

\* rec.material().scatter(ray, &rec), rnd the random value it drew.
scatter(mat, ray, hit_record, rnd) ==
    IF mat.kind = "Lambertian" THEN Lambertian_scatter(mat, ray, hit_record, rnd)
    ELSE IF mat.kind = "Metal" THEN Metal_scatter(mat, ray, hit_record, rnd)
    ELSE Dielectric_scatter(mat, ray, hit_record, rnd)

(***************************************************************************)
(* ray.rs: Ray::color                                                      *)
(***************************************************************************)
Black == VZero

White == Vec3(One, One, One)

\* Color::new(1.0, 1.0, 1.0) * (1.0 - a) + Color::new(0.5, 0.7, 1.0) * a
Gradient(a) ==
    VAdd(VScale(White, FSub(One, a)),
         VScale(Vec3(One \div 2, (7 * One) \div 10, One), a))

\* The colour Ray::color returns for a ray that hits nothing.
Background(ray) ==
    Gradient(FMul(One \div 2, FAdd(unit(ray.direction)[2], One)))

\* 0.001, the lower end of the interval Ray::color asks for.
TMin == One \div 1000

\* world.hit(self, 0.001..f64::INFINITY)
ColorHit(world, ray) == HittableList_hit(world, ray, Interval(TMin, PInf))

\* Ray::color after a hit: the scatter result decides.
ColorOfScatter(rec, rnd, sc) ==
    IF sc.some
    THEN [kind |-> "scatter", rec |-> rec, rnd |-> rnd, sc |-> sc]
    ELSE [kind |-> "absorbed", rec |-> rec, rnd |-> rnd, sc |-> sc,
          color |-> Black]

\* Ray::color after world.hit returned rec.
ColorOfHit(ray, rec, rnds) ==
    IF rec.some
    THEN {ColorOfScatter(rec, rnd, scatter(rec.material, ray, rec, rnd)) :
             rnd \in ScatterDraws(rec.material, rnds)}
    ELSE {[kind |-> "miss", color |-> Background(ray)]}

\* depth <= 0 is tested where invocations of depth 0 still query the scene.
ColorBody_CutoffBelowZero(world, ray, depth, rnds) ==
    IF depth < 0 THEN {[kind |-> "depth", color |-> Black]}
    ELSE ColorOfHit(ray, ColorHit(world, ray), rnds)

\* The body of Ray::color up to its recursive call: the outcomes it may have
\* when scatter draws its random value from rnds.  An outcome of kind
\* "scatter" is followed by sc.scattered.color(world, depth - 1).
ColorBody(world, ray, depth, rnds) ==
    IF depth <= 0 THEN {[kind |-> "depth", color |-> Black]}
    ELSE ColorOfHit(ray, ColorHit(world, ray), rnds)

\* Every value the random generators may return to a scatter.
AllDraws == [vecs |-> rand_unit_vec, xs |-> rand_f64]

\* The outcome of the body of Ray::color when each generator returns one value.
ColorOutcome(world, ray, depth, draw) ==
    CHOOSE o \in ColorBody(world, ray, depth,
                           [vecs |-> {draw.vec}, xs |-> {draw.x}]) : TRUE

\* The recursive call is handed the depth it was called with.
RecursionDepth_Same(depth) == depth

\* scattered.color(world, depth - 1): the depth of the recursive call.
RecursionDepth(depth) == depth - 1

RECURSIVE Ray_color(_, _, _, _)
\* The value an outcome of the body stands for:
\* attenuation.mul(&scattered.color(world, depth - 1)) after a scatter.
ColorValue(world, depth, draw, o) ==
    IF o.kind = "scatter"
    THEN mul(o.sc.attenuation, Ray_color(world, o.sc.scattered, RecursionDepth(depth), draw))
    ELSE o.color

\* Ray::color, every scatter of the evaluation drawing the values of draw.
Ray_color(world, ray, depth, draw) ==
    ColorValue(world, depth, draw, ColorOutcome(world, ray, depth, draw))

(***************************************************************************)
(* camera.rs                                                               *)
(***************************************************************************)
\* max_depth: 50
max_depth == 50

\* x.to_radians().tan() for the angles x, in degrees, the model's cameras use.
TanDeg(x) ==
    IF x = 0 THEN 0
    ELSE IF x = 45 * One THEN One
    ELSE IF x = 0 - 45 * One THEN 0 - One
    ELSE IF x = 10 * One THEN (17633 * One) \div 100000
    ELSE IF x = (3 * One) \div 10 THEN (5236 * One) \div 1000000
    ELSE NaN

\* f64 as i32: toward zero, NaN to 0, saturating.
AsI32(x) ==
    IF IsNaN(x) THEN 0
    ELSE IF x = PInf THEN 2147483647
    ELSE IF x = NInf THEN 0 - 2147483647 - 1
    ELSE TruncDiv(x, One)

\* i32 as f64
AsF64(n) == n * One

\* The struct Camera::new returns.
CameraOf(img_width, img_height, sample_size, center, pixel_delta_u, pixel_delta_v, viewport_upper_left, defocus_disk_u, defocus_disk_v, defocus_angle) ==
    [img_width |-> img_width, img_height |-> img_height, center |-> center,
     pixel00_loc |->
         VAdd(viewport_upper_left,
              VScale(VAdd(pixel_delta_u, pixel_delta_v), One \div 2)),
     pixel_delta_u |-> pixel_delta_u, pixel_delta_v |-> pixel_delta_v,
     sample_size |-> sample_size, max_depth |-> max_depth,
     defocus_disk_u |-> defocus_disk_u, defocus_disk_v |-> defocus_disk_v,
     defocus_angle |-> defocus_angle]

\* Camera::new from viewport_u and viewport_v on.
CameraOfViewport(img_width, img_height, sample_size, center, w, u, v, viewport_u, viewport_v, defocus_angle, defocus_radius, focus_dist) ==
    CameraOf(img_width, img_height, sample_size, center,
             VDiv(viewport_u, AsF64(img_width)),
             VDiv(viewport_v, AsF64(img_height)),
             VSub(VSub(VSub(center, VScale(w, focus_dist)),
                       VDiv(viewport_u, 2 * One)),
                  VDiv(viewport_v, 2 * One)),
             VScale(u, defocus_radius), VScale(v, defocus_radius),
             defocus_angle)

\* Camera::new from the basis u, v, w on.
CameraOfBasis(img_width, img_height, sample_size, center, w, u, v, viewport_height, defocus_angle, focus_dist) ==
    CameraOfViewport(img_width, img_height, sample_size, center, w, u, v,
                     VScale(u, FMul(viewport_height,
                                    FDiv(AsF64(img_width), AsF64(img_height)))),
                     VScale(VNeg(v), viewport_height),
                     defocus_angle,
                     TanDeg(FDiv(defocus_angle, 2 * One)), focus_dist)

\* Camera::new from w = (lookfrom - lookat).unit() and u on.
CameraOfW(img_width, img_height, sample_size, vfov, lookfrom, w, u, defocus_angle, focus_dist) ==
    CameraOfBasis(img_width, img_height, sample_size, lookfrom, w, u,
                  cross(w, u),
                  FMul(FMul(2 * One, TanDeg(FDiv(vfov, 2 * One))), focus_dist),
                  defocus_angle, focus_dist)

\* Camera::new from img_height on.
CameraOfHeight(img_width, img_height, sample_size, vfov, lookfrom, vup, w, defocus_angle, focus_dist) ==
    CameraOfW(img_width, img_height, sample_size, vfov, lookfrom, w,
              unit(cross(vup, w)), defocus_angle, focus_dist)

\* ((img_width as f64 / aspect_ratio) as i32).max(1)
ImgHeight(img_width, aspect_ratio) ==
    IF AsI32(FDiv(AsF64(img_width), aspect_ratio)) > 1
    THEN AsI32(FDiv(AsF64(img_width), aspect_ratio))
    ELSE 1

Camera_new(aspect_ratio, img_width, sample_size, vfov, lookfrom, lookat, vup, defocus_angle, focus_dist) ==
    CameraOfHeight(img_width, ImgHeight(img_width, aspect_ratio), sample_size,
                   vfov, lookfrom, vup, unit(VSub(lookfrom, lookat)),
                   defocus_angle, focus_dist)

\* if self.defocus_angle >= 0.0
UsesDisk_FromZero(cam) == FLe(0, cam.defocus_angle)

\* if self.defocus_angle > 0.0: whether get_ray samples the defocus disk.
UsesDisk(cam) == FGt(cam.defocus_angle, 0)

\* self.center + self.defocus_disk_u * p1 + self.defocus_disk_v * p2
DiskOrigin(cam, p) ==
    VAdd(VAdd(cam.center, VScale(cam.defocus_disk_u, p[1])),
         VScale(cam.defocus_disk_v, p[2]))

\* The point of the viewport get_ray aims at, ru and rv the values
\* random::<f64>() returned: u = ru - 0.5, v = rv - 0.5.
Sample(cam, i, j, ru, rv) ==
    VAdd(VAdd(cam.pixel00_loc,
              VScale(cam.pixel_delta_u, FAdd(AsF64(i), FSub(ru, One \div 2)))),
         VScale(cam.pixel_delta_v, FAdd(AsF64(j), FSub(rv, One \div 2))))

\* Ray::new(origin, (sample - origin).unit())
RayThrough(sample, origin) == Ray_new(origin, unit(VSub(sample, origin)))

\* get_ray when the defocus disk is not sampled.
GetRayPinhole(cam, i, j, ru, rv) == RayThrough(Sample(cam, i, j, ru, rv), cam.center)

\* get_ray when the defocus disk is sampled, p the value of rand_in_unit_disk.
GetRayDefocus(cam, i, j, ru, rv, p) ==
    RayThrough(Sample(cam, i, j, ru, rv), DiskOrigin(cam, p))

\* Camera::get_ray, p the value rand_in_unit_disk returns if it is called.
get_ray(cam, i, j, ru, rv, p) ==
    IF UsesDisk(cam) THEN GetRayDefocus(cam, i, j, ru, rv, p)
    ELSE GetRayPinhole(cam, i, j, ru, rv)

\* r.clamp(0.000, 0.999)
Clamp(x) ==
    IF IsNaN(x) THEN NaN
    ELSE IF x < 0 THEN 0
    ELSE IF x > (999 * One) \div 1000 THEN (999 * One) \div 1000
    ELSE x

\* (256.0 * r.clamp(0.000, 0.999)) as i32
Channel(x) == AsI32(FMul(256 * One, Clamp(x)))

\* The line write_color prints for the gamma-corrected colour g.
WriteColorOf(g) == <<Channel(g[1]), Channel(g[2]), Channel(g[3])>>

\* Camera::write_color: the three integers of the line it prints.
write_color(color) == WriteColorOf(to_gamma(color))

(***************************************************************************)
(* One call of HittableList::hit, object by object.                        *)
(***************************************************************************)
Grey == Vec3(One \div 2, One \div 2, One \div 2)

\* What Sphere::new is called with in the hit calls of the model.
HitCenters ==
    {Vec3(0, 0, 0 - 2 * One), Vec3(0, 0, 0), Vec3(0, One, 0 - 2 * One),
     Vec3(0, 0, 0 - 4 * One)}

HitRadii == {0 - One, One, 2 * One}

HitSpheres ==
    {Sphere_new(c, r, Lambertian_new(Grey)) : c \in HitCenters, r \in HitRadii}

HitRays ==
    {Ray_new(VZero, d) :
        d \in {Vec3(0, 0, 0 - One), Vec3(0, 0, 0 - 2 * One), Vec3(0, 0, One),
               VZero, Vec3((3 * One) \div 5, 0, 0 - (4 * One) \div 5)}}

HitIntervals ==
    {Interval(TMin, PInf), Interval(0, 3 * One),
     Interval(One, (5 * One) \div 2)}

SeqsUpTo(S, n) == UNION {[1..k -> S] : k \in 0..n}

NoCall == [made |-> FALSE]

HitInit ==
    /\ h_ray \in HitRays
    /\ h_interval \in HitIntervals
    /\ h_objects \in SeqsUpTo(HitSpheres, MaxObjects)
    /\ h_idx = 0
    /\ h_closest = HitLoopStart(h_interval).closest_so_far
    /\ h_res = HitLoopStart(h_interval).res
    /\ h_call = NoCall

\* The loop state in the variables.
HitState == [closest_so_far |-> h_closest, res |-> h_res]

\* The iteration leaves the loop in state nxt.
HitIterateTo(nxt) ==
    /\ h_closest' = nxt.closest_so_far
    /\ h_res' = nxt.res

\* What the iteration's call of object.hit was given and what it returned.
HitCallOf(object, tested) ==
    [made |-> TRUE, object |-> object, interval |-> tested,
     result |-> Sphere_hit(object, h_ray, tested)]

\* One iteration: object h_idx + 1 is tested and the loop state updated.
HitIterate ==
    /\ h_idx < Len(h_objects)
    /\ h_call' = HitCallOf(h_objects[h_idx + 1],
                           TestedInterval(HitState, h_interval))
    /\ HitIterateTo(HitLoopStep(HitState, h_objects[h_idx + 1], h_ray,
                                h_interval))
    /\ h_idx' = h_idx + 1
    /\ UNCHANGED <<h_ray, h_interval, h_objects>>

HitReturned == h_idx = Len(h_objects)

HitIdle ==
    /\ h_ray = Ray_new(VZero, VZero)
    /\ h_interval = Interval(0, 0)
    /\ h_objects = <<>>
    /\ h_idx = 0
    /\ h_closest = 0
    /\ h_res = None
    /\ h_call = NoCall

(***************************************************************************)
(* One evaluation of Ray::color, invocation by invocation.  c_stack holds  *)
(* the ray and the depth of every invocation that has not returned, the    *)
(* innermost last; c_pending holds, for every invocation waiting for its   *)
(* recursive call, the attenuation it will multiply the result by.         *)
(***************************************************************************)
ColorWorlds ==
    {<<Sphere_new(Vec3(0, 0, 0 - 2 * One), One, Dielectric_new(One))>>,
     <<Sphere_new(Vec3(0, 0, 0 - 2 * One), One, Dielectric_new((3 * One) \div 2))>>,
     <<Sphere_new(Vec3(0, 0, 0 - 2 * One), One, Lambertian_new(Grey)),
       Sphere_new(Vec3(0, 0, 2 * One), One, Metal_new(White, One))>>,
     <<Sphere_new(VZero, 2 * One, Metal_new(Grey, 0))>>,
     <<>>}

ColorRays ==
    {Ray_new(VZero, d) :
        d \in {Vec3(0, 0, 0 - One), Vec3(0, 0, One), Vec3(0, One, 0),
               Vec3((475 * One) \div 1000, 0, 0 - (880 * One) \div 1000)}}

NoScatterCall == [made |-> FALSE]

ColorInit ==
    /\ c_world \in ColorWorlds
    /\ c_depth0 \in (0 - 1)..MaxDepth
    /\ \E ray \in ColorRays : c_stack = <<[ray |-> ray, depth |-> c_depth0]>>
    /\ c_pending = <<>>
    /\ c_pc = "call"
    /\ c_ret = Black
    /\ c_hits = 0
    /\ c_scatters = 0
    /\ c_calls = 1
    /\ c_end = "none"
    /\ c_last = NoScatterCall

\* The innermost invocation.
Top == c_stack[Len(c_stack)]

\* The outcomes the body of the innermost invocation may have.
TopOutcomes == ColorBody(c_world, Top.ray, Top.depth, AllDraws)

\* The innermost invocation returns o.color, the last value of the chain.
ColorReturns(o) ==
    /\ c_pc' = "return"
    /\ c_ret' = o.color
    /\ c_end' = o.kind
    /\ UNCHANGED <<c_world, c_depth0, c_stack, c_pending, c_calls>>

\* The scatter call of outcome o.
ScatterCallOf(o) ==
    [made |-> TRUE, ray |-> Top.ray, rec |-> o.rec, rnd |-> o.rnd,
     result |-> o.sc]

\* if depth <= 0 { return Color::default(); }
ColorCutoff ==
    /\ c_pc = "call"
    /\ \E o \in TopOutcomes :
         /\ o.kind = "depth"
         /\ ColorReturns(o)
    /\ UNCHANGED <<c_hits, c_scatters, c_last>>

\* world.hit finds nothing: the background gradient.
ColorMiss ==
    /\ c_pc = "call"
    /\ \E o \in TopOutcomes :
         /\ o.kind = "miss"
         /\ ColorReturns(o)
    /\ c_hits' = c_hits + 1
    /\ UNCHANGED <<c_scatters, c_last>>

\* world.hit finds rec and rec.material().scatter returns None: black.
ColorAbsorb ==
    /\ c_pc = "call"
    /\ \E o \in TopOutcomes :
         /\ o.kind = "absorbed"
         /\ ColorReturns(o)
         /\ c_last' = ScatterCallOf(o)
    /\ c_hits' = c_hits + 1
    /\ c_scatters' = c_scatters + 1

\* world.hit finds rec and the material scatters: scattered.color(world,
\* depth - 1) is invoked, its result to be multiplied by the attenuation.
ColorScatter ==
    /\ c_pc = "call"
    /\ \E o \in TopOutcomes :
         /\ o.kind = "scatter"
         /\ c_stack' = Append(c_stack, [ray |-> o.sc.scattered,
                                        depth |-> RecursionDepth(Top.depth)])
         /\ c_pending' = Append(c_pending, o.sc.attenuation)
         /\ c_last' = ScatterCallOf(o)
    /\ c_hits' = c_hits + 1
    /\ c_scatters' = c_scatters + 1
    /\ c_calls' = c_calls + 1
    /\ UNCHANGED <<c_world, c_depth0, c_pc, c_ret, c_end>>

\* The innermost invocation hands c_ret to its caller, which returns
\* attenuation.mul(c_ret); the outermost one ends the evaluation.
ColorReturn ==
    /\ c_pc = "return"
    /\ c_stack' = SubSeq(c_stack, 1, Len(c_stack) - 1)
    /\ IF Len(c_stack) > 1
       THEN /\ c_ret' = mul(c_pending[Len(c_pending)], c_ret)
            /\ c_pending' = SubSeq(c_pending, 1, Len(c_pending) - 1)
            /\ c_pc' = "return"
       ELSE /\ c_pc' = "done"
            /\ UNCHANGED <<c_ret, c_pending>>
    /\ UNCHANGED <<c_world, c_depth0, c_hits, c_scatters, c_calls, c_end, c_last>>

ColorIdle ==
    /\ c_world = <<>>
    /\ c_depth0 = 0
    /\ c_stack = <<>>
    /\ c_pending = <<>>
    /\ c_pc = "idle"
    /\ c_ret = Black
    /\ c_hits = 0
    /\ c_scatters = 0
    /\ c_calls = 0
    /\ c_end = "none"
    /\ c_last = NoScatterCall

(***************************************************************************)
(* Calls of Camera::get_ray on one camera.                                 *)
(***************************************************************************)
Up == Vec3(0, One, 0)

\* The cameras of the model: Camera::new with the image as wide as
\* img_width, looking from the origin down the negative z axis, and the
\* camera of main.rs (with a small image).
CamerasOfWidth(img_width) ==
    {Camera_new(aspect_ratio, img_width, sample_size, 90 * One, VZero,
                Vec3(0, 0, 0 - One), Up, defocus_angle, One) :
        aspect_ratio \in {One, 2 * One}, sample_size \in {1, 2},
        defocus_angle \in {0, 90 * One, 0 - 90 * One}}
    \cup
    {Camera_new((16 * One) \div 9, img_width, 1, 20 * One,
                Vec3(13 * One, 2 * One, 3 * One), VZero, Up,
                (6 * One) \div 10, 10 * One)}

Cameras == UNION {CamerasOfWidth(img_width) : img_width \in 1..MaxWidth}

NoRay == [made |-> FALSE]

\* The values the two random::<f64>() of one call of get_ray return.
PixelOffsets == {<<0, 0>>, <<One \div 2, One \div 10>>, <<One - 1, One - 1>>}

CameraInit ==
    /\ g_cam \in {cam \in Cameras : cam.sample_size = 1}
    /\ g_ray = NoRay
    /\ g_calls = 0
    /\ g_disk_calls = 0

\* The pixels of the image: column i, row j.
Columns(cam) == 0..(cam.img_width - 1)
Rows(cam) == 0..(cam.img_height - 1)

\* get_ray(i, j) returned ray.
GetRayReturns(i, j, ray) ==
    /\ g_ray' = [made |-> TRUE, i |-> i, j |-> j, ray |-> ray]
    /\ g_calls' = g_calls + 1
    /\ UNCHANGED g_cam

\* A call of get_ray that takes the else branch: the origin is the centre.
GetRayFromCenter ==
    /\ g_calls < MaxGetRays
    /\ ~UsesDisk(g_cam)
    /\ \E i \in Columns(g_cam), j \in Rows(g_cam), r \in PixelOffsets :
         GetRayReturns(i, j, get_ray(g_cam, i, j, r[1], r[2], VZero))
    /\ UNCHANGED g_disk_calls

\* A call of get_ray that calls rand_in_unit_disk.
GetRayFromDisk ==
    /\ g_calls < MaxGetRays
    /\ UsesDisk(g_cam)
    /\ \E i \in Columns(g_cam), j \in Rows(g_cam), r \in PixelOffsets,
          p \in rand_in_unit_disk :
         GetRayReturns(i, j, get_ray(g_cam, i, j, r[1], r[2], p))
    /\ g_disk_calls' = g_disk_calls + 1

CameraIdle ==
    /\ g_cam = [img_width |-> 0]
    /\ g_ray = NoRay
    /\ g_calls = 0
    /\ g_disk_calls = 0

(***************************************************************************)
(* One Camera::render.  The closure of par_iter_mut().enumerate()          *)
(* .for_each runs once per flat index k, as a task of its own: it computes *)
(* the colour and stores it (RenderPixel), then calls pb.inc(1) (PbInc).   *)
(* for_each returns when every task has ended; then the image is printed.  *)
(***************************************************************************)
\* The values the random generators return to one sample of a pixel.
RenderDraws ==
    <<[ru |-> 0, rv |-> 0, p |-> VZero, vec |-> Vec3(0, One, 0), x |-> 0],
      [ru |-> One \div 2, rv |-> One \div 2, p |-> Vec3(One \div 2, 0, 0),
       vec |-> Vec3(0 - One, 0, 0), x |-> One \div 2]>>

\* The generators are seeded once per render: sample s of pixel k draws
DrawFor(seed, k, s) == RenderDraws[((seed + k + s) % Len(RenderDraws)) + 1]

RenderWorlds ==
    {<<Sphere_new(Vec3(0, 0, 0 - 2 * One), One, Lambertian_new(Grey))>>, <<>>}

RenderCameras ==
    {cam \in Cameras :
        /\ cam.center = VZero
        /\ cam.defocus_angle \in {0, 90 * One}
        /\ cam.img_width * cam.img_height <= MaxPixels}

\* ray.color(&world, self.max_depth) of the ray get_ray(i, j) returns.
SampleColor(cam, world, i, j, draw) ==
    Ray_color(world, get_ray(cam, i, j, draw.ru, draw.rv, draw.p),
              cam.max_depth, draw)

RECURSIVE SampleFold(_, _, _, _, _, _)
\* (0..n).fold(Color::default(), |acc, _| acc + ray.color(...)), k the flat
\* index of pixel (i, j).
SampleFold(cam, world, k, i, j, n) ==
    IF n = 0 THEN VZero
    ELSE VAdd(SampleFold(cam, world, k, i, j, n - 1),
              SampleColor(cam, world, i, j, DrawFor(r_seed, k, n - 1)))

\* let j = i / img_height; let i = i % img_height;
PixelOf_ByHeight(cam, k) == [i |-> k % cam.img_height, j |-> k \div cam.img_height]

\* let j = i / img_width; let i = i % img_width;
PixelOf(cam, k) == [i |-> k % cam.img_width, j |-> k \div cam.img_width]

\* The colour the closure computes for pixel (i, j) of flat index k.
PixelColor(cam, world, k, i, j) ==
    VDiv(SampleFold(cam, world, k, i, j, cam.sample_size),
         AsF64(cam.sample_size))

\* The flat indices of the image.
Slots == 0..(r_cam.img_width * r_cam.img_height - 1)

NSlots == r_cam.img_width * r_cam.img_height

NoWrite == [writes |-> 0]

RenderInit ==
    /\ r_cam \in RenderCameras
    /\ r_world \in RenderWorlds
    /\ r_seed \in {0, 1}
    /\ r_img = [k \in Slots |-> VZero]
    /\ r_task = [k \in Slots |-> "todo"]
    /\ r_slot = [k \in Slots |-> NoWrite]
    /\ r_pb = 0
    /\ r_pc = "par"
    /\ r_next = 0
    /\ r_out = <<>>

\* Task k stores color, computed for pixel px, in the slot it was given.
StorePixel(k, px, color) ==
    /\ r_img' = [r_img EXCEPT ![k] = color]
    /\ r_slot' = [r_slot EXCEPT ![k] = [writes |-> r_slot[k].writes + 1,
                                        by |-> k, i |-> px.i, j |-> px.j,
                                        color |-> color]]

\* Task k computes the colour of its pixel: *pixel = color.
RenderPixelAt(k, px) ==
    StorePixel(k, px, PixelColor(r_cam, r_world, k, px.i, px.j))

RenderPixel(k) ==
    /\ r_pc = "par"
    /\ r_task[k] = "todo"
    /\ RenderPixelAt(k, PixelOf(r_cam, k))
    /\ r_task' = [r_task EXCEPT ![k] = "written"]
    /\ UNCHANGED <<r_cam, r_world, r_seed, r_pb, r_pc, r_next, r_out>>

\* pb.inc(1) counts pixel k without its colour having been stored.
PbInc_BeforeWrite(k) ==
    /\ r_pc = "par"
    /\ r_task[k] = "todo"
    /\ r_pb' = r_pb + 1
    /\ r_task' = [r_task EXCEPT ![k] = "done"]
    /\ UNCHANGED <<r_cam, r_world, r_seed, r_img, r_slot, r_pc, r_next, r_out>>

\* Task k ends with pb.inc(1).
PbInc(k) ==
    /\ r_pc = "par"
    /\ r_task[k] = "written"
    /\ r_pb' = r_pb + 1
    /\ r_task' = [r_task EXCEPT ![k] = "done"]
    /\ UNCHANGED <<r_cam, r_world, r_seed, r_img, r_slot, r_pc, r_next, r_out>>

\* for_each has returned: pb.finish_with_message sets the position to the
\* bar's length, and the header is printed.
RenderFinish ==
    /\ r_pc = "par"
    /\ \A k \in Slots : r_task[k] = "done"
    /\ r_pb' = NSlots
    /\ r_pc' = "print"
    /\ UNCHANGED <<r_cam, r_world, r_seed, r_img, r_task, r_slot, r_next, r_out>>

\* for pixel in img.into_iter().rev()
NextPixel_Reversed(n) == NSlots - 1 - n

\* The flat index of the pixel the n-th iteration of `for pixel in img`
\* prints, n from 0.
NextPixel(n) == n

\* self.write_color(pixel) of slot k.
PrintPixel(k) ==
    r_out' = Append(r_out, [k |-> k, rgb |-> write_color(r_img[k])])

\* One iteration of `for pixel in img { self.write_color(pixel); }`.
WritePixel ==
    /\ r_pc = "print"
    /\ r_next < NSlots
    /\ PrintPixel(NextPixel(r_next))
    /\ r_next' = r_next + 1
    /\ UNCHANGED <<r_cam, r_world, r_seed, r_img, r_task, r_slot, r_pb, r_pc>>

\* The loop is over: eprintln!("\rDone.") and render returns.
RenderEnd ==
    /\ r_pc = "print"
    /\ r_next = NSlots
    /\ r_pc' = "done"
    /\ UNCHANGED <<r_cam, r_world, r_seed, r_img, r_task, r_slot, r_pb, r_next, r_out>>

RenderIdle ==
    /\ r_cam = [img_width |-> 0]
    /\ r_world = <<>>
    /\ r_seed = 0
    /\ r_img = <<>>
    /\ r_task = <<>>
    /\ r_slot = <<>>
    /\ r_pb = 0
    /\ r_pc = "idle"
    /\ r_next = 0
    /\ r_out = <<>>

(***************************************************************************)
(* HittableList::hit and Sphere::hit (SpecHit)                             *)
(***************************************************************************)
\* The t of the hits the objects report when each is tested alone over the
\* original interval.
IndividualTs ==
    {Sphere_hit(h_objects[i], h_ray, h_interval).t :
        i \in {j \in 1..Len(h_objects) :
                  Sphere_hit(h_objects[j], h_ray, h_interval).some}}

\* C1: when HittableList::hit returns, its result is None exactly when no
\* object, tested alone over the original interval, reports a hit; otherwise
\* it is a hit whose t is the least t among those individual hits.
C1_ClosestHit ==
    HitReturned =>
        IF IndividualTs = {} THEN ~h_res.some
        ELSE /\ h_res.some
             /\ h_res.t \in IndividualTs
             /\ \A t \in IndividualTs : h_res.t <= t

\* Two objects are hit when tested alone, the first nearer than the second,
\* and the list returned the first one's t.
C1_Witness ==
    /\ HitReturned
    /\ Len(h_objects) = 2
    /\ Sphere_hit(h_objects[1], h_ray, h_interval).some
    /\ Sphere_hit(h_objects[2], h_ray, h_interval).some
    /\ Sphere_hit(h_objects[1], h_ray, h_interval).t
           < Sphere_hit(h_objects[2], h_ray, h_interval).t
    /\ h_res.some
    /\ h_res.t = Sphere_hit(h_objects[1], h_ray, h_interval).t

\* C4: every call of Sphere::hit returns None when neither root of the
\* quadratic lies in the interval [start, end); otherwise it returns the
\* smaller root when that root is in the interval, else the larger root; the
\* smaller root is not above the larger, so the hit returned is the nearest
\* one in the interval, and its t is in the interval.
C4_SphereHitNearest ==
    h_call.made =>
        LET q == Quadratic(h_call.object, h_ray)
            small == SmallRoot(q)
            large == LargeRoot(q)
            iv == h_call.interval
            r == h_call.result
        IN  /\ (~Contains(iv, small) /\ ~Contains(iv, large)) => ~r.some
            /\ Contains(iv, small) => (r.some /\ r.t = small)
            /\ (~Contains(iv, small) /\ Contains(iv, large))
                   => (r.some /\ r.t = large)
            /\ r.some => Contains(iv, r.t)
            /\ (IsFinite(small) /\ IsFinite(large)) => small <= large
            /\ r.some => \A x \in {small, large} : Contains(iv, x) => r.t <= x

\* A call whose smaller root is outside the interval returned the larger
\* root.
C4_Witness ==
    /\ h_call.made
    /\ IsFinite(SmallRoot(Quadratic(h_call.object, h_ray)))
    /\ ~Contains(h_call.interval, SmallRoot(Quadratic(h_call.object, h_ray)))
    /\ h_call.result.some
    /\ h_call.result.t = LargeRoot(Quadratic(h_call.object, h_ray))

\* C5: every hit record Sphere::hit returns has dot(normal, ray.direction)
\* <= 0, and front_face is true exactly when the stored normal is the outward
\* normal, false exactly when it is the negated outward normal.
C5_NormalFacesRay ==
    (h_call.made /\ h_call.result.some) =>
        LET r == h_call.result
            outward_normal == OutwardNormal(h_call.object, h_ray, r.t)
        IN  /\ FLe(dot(r.normal, h_ray.direction), 0)
            /\ r.front_face => r.normal = outward_normal
            /\ ~r.front_face => r.normal = VNeg(outward_normal)

\* The same for the spheres of positive radius only.
C5_PositiveRadius ==
    (h_call.made /\ h_call.result.some /\ h_call.object.radius > 0) =>
        LET r == h_call.result
            outward_normal == OutwardNormal(h_call.object, h_ray, r.t)
        IN  /\ FLe(dot(r.normal, h_ray.direction), 0)
            /\ r.front_face => r.normal = outward_normal
            /\ ~r.front_face => r.normal = VNeg(outward_normal)

\* The hit object number i reports when tested alone over the original
\* interval.
IndividualHit(i) == Sphere_hit(h_objects[i], h_ray, h_interval)

\* Object number i is the first of the list whose individual hit has t.
FirstAt(i, t) ==
    /\ IndividualHit(i).some
    /\ IndividualHit(i).t = t
    /\ \A j \in 1..(i - 1) : ~(IndividualHit(j).some /\ IndividualHit(j).t = t)

\* What holds of closest_so_far and res between the iterations.
C11_Bound ==
    /\ h_idx = 0 => h_closest = h_interval.end
    /\ h_closest <= h_interval.end
    /\ IF h_res.some THEN h_closest = h_res.t ELSE h_closest = h_interval.end
    /\ (HitReturned /\ h_res.some) =>
           \E i \in 1..Len(h_objects) : FirstAt(i, h_res.t) /\ h_res = IndividualHit(i)

\* What holds of every iteration.
C11_Step ==
    /\ h_idx' = h_idx + 1
    /\ h_call'.made
    /\ h_call'.object = h_objects[h_idx + 1]
    /\ h_call'.interval = Interval(h_interval.start, h_closest)
    /\ h_closest' <= h_closest
    /\ IF h_call'.result.some
       THEN /\ h_closest' = h_call'.result.t
            /\ h_res' = h_call'.result
            /\ h_call'.result.t < h_closest
            /\ h_res.some => h_call'.result.t < h_res.t
       ELSE /\ h_closest' = h_closest
            /\ h_res' = h_res

\* C11: closest_so_far starts at interval.end and never increases; every
\* object is tested against interval.start..closest_so_far; an accepted hit
\* becomes the result and its t the new closest_so_far, which is below the
\* one before, so accepted hits have strictly decreasing t; and of the
\* objects hit at the t returned, the result is the hit of the first in the
\* list.
C11_ShrinkingBound ==
    /\ []C11_Bound
    /\ [][C11_Step]_vars

\* Two objects report different hits at the same t when tested alone, and
\* the list returned the hit of the first.
C11_Witness ==
    /\ HitReturned
    /\ Len(h_objects) = 2
    /\ IndividualHit(1).some
    /\ IndividualHit(2).some
    /\ IndividualHit(1).t = IndividualHit(2).t
    /\ IndividualHit(1) # IndividualHit(2)
    /\ h_res = IndividualHit(1)

(***************************************************************************)
(* Ray::color and the materials (SpecColor)                                *)
(***************************************************************************)
\* C3: an invocation of Ray::color with depth <= 0 returns black, and in
\* doing so neither queries the scene for a hit nor calls a scatter nor
\* invokes Ray::color again.
C3_DepthCutoff ==
    [][(c_pc = "call" /\ Top.depth <= 0) =>
           /\ c_pc' = "return"
           /\ c_ret' = Black
           /\ c_hits' = c_hits
           /\ c_scatters' = c_scatters
           /\ c_calls' = c_calls
           /\ c_last' = c_last
           /\ c_stack' = c_stack]_vars

\* Ray::color was called with depth 0 on a ray the scene would have
\* reported a hit for, and has returned without a query.
C3_Witness ==
    /\ c_pc = "return"
    /\ Len(c_stack) = 1
    /\ Top.depth = 0
    /\ ColorHit(c_world, Top.ray).some
    /\ c_ret = Black
    /\ c_hits = 0
    /\ c_scatters = 0

\* How far two directions may differ by rounding and still count as equal.
DirTolerance == One \div 100

\* Directions a and b are equal up to rounding.
SameDirection(a, b) ==
    \A n \in 1..3 :
        /\ IsFinite(a[n])
        /\ IsFinite(b[n])
        /\ Abs(a[n] - b[n]) <= DirTolerance

\* C6: every call of Dielectric::scatter with refractive index 1.0 returns
\* a scattered ray whose direction is the unit direction of the incoming
\* ray: the reflect branch is not taken.
C6_UnitIndexPassesThrough ==
    (/\ c_last.made
     /\ c_last.rec.material.kind = "Dielectric"
     /\ c_last.rec.material.ir = One) =>
        /\ c_last.result.some
        /\ ~DielectricReflects(c_last.rec.material, c_last.ray, c_last.rec,
                               c_last.rnd)
        /\ SameDirection(c_last.result.scattered.direction,
                         unit(c_last.ray.direction))

\* The same for the calls that take the refract branch only.
C6_RefractBranch ==
    (/\ c_last.made
     /\ c_last.rec.material.kind = "Dielectric"
     /\ c_last.rec.material.ir = One
     /\ ~DielectricReflects(c_last.rec.material, c_last.ray, c_last.rec,
                            c_last.rnd)) =>
        /\ c_last.result.some
        /\ SameDirection(c_last.result.scattered.direction,
                         unit(c_last.ray.direction))

\* The steps an evaluation of Ray::color(world, d) has left at most: two for
\* each invocation it may still make, one for each invocation that has yet
\* to return, one for the innermost invocation's body.
C9_Measure ==
    2 * (c_depth0 + 1 - c_calls) + Len(c_stack)
        + (IF c_pc = "call" THEN 1 ELSE 0)

\* What holds of an evaluation of Ray::color(world, d), d >= 0, at every
\* moment.
C9_Bounds ==
    c_depth0 >= 0 =>
        /\ c_scatters <= c_depth0
        /\ c_calls <= c_depth0 + 1
        /\ Len(c_stack) <= c_calls
        /\ \A n \in 2..Len(c_stack) :
               c_stack[n].depth = c_stack[n - 1].depth - 1
        /\ C9_Measure >= 0
        /\ c_pc = "call" => (c_end = "none" /\ TopOutcomes # {})
        /\ c_pc \in {"return", "done"} => c_end \in {"miss", "absorbed", "depth"}
        /\ c_pc = "done" <=> c_stack = <<>>
        /\ c_end = "depth" => (c_scatters = c_depth0 /\ c_calls = c_depth0 + 1)

\* C9: an evaluation of Ray::color(world, d), d >= 0, ends: while it has not
\* ended it can take a step, and every step brings it nearer to its end,
\* which it reaches after at most d calls of scatter and at most d + 1
\* invocations; each recursive invocation has the depth of its caller less
\* one; and the chain of invocations ends in exactly one of a miss, an
\* absorption, or the depth cutoff.
C9_TerminatesWithinDepth ==
    /\ []C9_Bounds
    /\ [][c_depth0 >= 0 => C9_Measure' < C9_Measure]_vars

\* An evaluation from the largest depth has ended by the depth cutoff,
\* after as many scatters as its depth.
C9_Witness ==
    /\ c_pc = "done"
    /\ c_depth0 = MaxDepth
    /\ c_scatters = MaxDepth
    /\ c_calls = MaxDepth + 1
    /\ c_end = "depth"

(***************************************************************************)
(* Camera::get_ray (SpecCamera)                                            *)
(***************************************************************************)
\* C7: on a camera built with defocus_angle = 0, every ray get_ray returned
\* has the camera's center as its origin, and rand_in_unit_disk has not been
\* called.
C7_PinholeOrigin ==
    g_cam.defocus_angle = 0 =>
        /\ g_disk_calls = 0
        /\ g_ray.made => g_ray.ray.origin = g_cam.center

\* get_ray has been called on a camera of defocus_angle 0 and of focus
\* distance above zero, for a pixel off the first column.
C7_Witness ==
    /\ g_cam.defocus_angle = 0
    /\ g_calls = MaxGetRays
    /\ g_ray.made
    /\ g_ray.i > 0
    /\ g_ray.ray.origin = g_cam.center

(***************************************************************************)
(* Camera::render (SpecRender)                                             *)
(***************************************************************************)
\* C2: at every moment of a render each slot of the image has been written
\* at most once, exactly once as soon as its task has stored its pixel; the
\* write to slot k was made by task k, and stored the colour computed for
\* column k mod img_width and row k div img_width.
C2_SlotWrittenOnceByOwner ==
    r_pc # "idle" =>
        \A k \in Slots :
            /\ r_slot[k].writes <= 1
            /\ r_task[k] = "todo" <=> r_slot[k].writes = 0
            /\ r_slot[k].writes = 0 => r_img[k] = VZero
            /\ r_slot[k].writes = 1 =>
                   /\ r_slot[k].by = k
                   /\ r_slot[k].i = k % r_cam.img_width
                   /\ r_slot[k].j = k \div r_cam.img_width
                   /\ r_slot[k].color =
                          PixelColor(r_cam, r_world, k, k % r_cam.img_width,
                                     k \div r_cam.img_width)
                   /\ r_img[k] = r_slot[k].color
            /\ r_pc # "par" => r_slot[k].writes = 1

\* The tasks of an image wider than high have all stored their pixels, the
\* last of them first.
C2_Witness ==
    /\ r_pc = "par"
    /\ r_cam.img_width = 2
    /\ r_cam.img_height = 1
    /\ r_task[1] = "done"
    /\ r_task[0] = "written"
    /\ r_slot[1].i = 1
    /\ r_slot[1].j = 0
    /\ r_img[0] # r_img[1]

\* C8: the triples render has printed are those of the slots 0, 1, 2, ... in
\* this order, each the write_color of its slot; none is printed before every
\* task has stored its pixel and ended; and when render returns, img_width *
\* img_height triples have been printed.
C8_DenseRowMajorOutput ==
    r_pc # "idle" =>
        /\ Len(r_out) <= r_cam.img_width * r_cam.img_height
        /\ \A n \in 1..Len(r_out) :
               /\ r_out[n].k = n - 1
               /\ r_out[n].rgb = write_color(r_img[n - 1])
        /\ Len(r_out) > 0 =>
               \A k \in Slots : r_task[k] = "done" /\ r_slot[k].writes = 1
        /\ r_pc = "done" => Len(r_out) = r_cam.img_width * r_cam.img_height

\* A render of a 2 x 2 image has returned, having printed four triples that
\* are not all the same.
C8_Witness ==
    /\ r_pc = "done"
    /\ r_cam.img_width = 2
    /\ r_cam.img_height = 2
    /\ Len(r_out) = 4
    /\ \E n \in 1..4 : r_out[n].rgb # r_out[1].rgb

\* The tasks that have ended.
DoneTasks == {k \in Slots : r_task[k] = "done"}

\* What holds of the progress count at every moment of a render.
C10_CountsCompleted ==
    r_pc # "idle" =>
        /\ r_pb <= r_cam.img_width * r_cam.img_height
        /\ r_pc = "par" => r_pb = Cardinality(DoneTasks)
        /\ r_pc # "par" => r_pb = r_cam.img_width * r_cam.img_height

\* What holds of every step of a render.
C10_Step ==
    /\ r_pb' >= r_pb
    /\ r_pb' # r_pb =>
           /\ r_pb' = r_pb + 1
           /\ r_img' = r_img
           /\ \E k \in Slots :
                  /\ r_task[k] = "written"
                  /\ r_slot[k].writes = 1
                  /\ r_task' = [r_task EXCEPT ![k] = "done"]

\* C10: the progress count never decreases; it grows by one at a time, each
\* time for one pixel whose slot has been written and whose task ends, and
\* without changing the image; it is the number of ended tasks, never above
\* img_width * img_height, and is img_width * img_height once the progress
\* bar is finished.
C10_ProgressMonotone ==
    /\ []C10_CountsCompleted
    /\ [][C10_Step]_vars

\* Two of four pixels are counted while a third is stored and not yet
\* counted, and the fourth not yet computed.
C10_Witness ==
    /\ r_pc = "par"
    /\ r_cam.img_width * r_cam.img_height = 4
    /\ r_pb = 2
    /\ \E k \in Slots : r_task[k] = "written"
    /\ \E k \in Slots : r_task[k] = "todo"

(***************************************************************************)
(* Specifications                                                          *)
(***************************************************************************)
InitHit == HitInit /\ ColorIdle /\ CameraIdle /\ RenderIdle

NextHit == HitIterate /\ UNCHANGED <<cvars, gvars, rvars>>

SpecHit == InitHit /\ [][NextHit]_vars

InitColor == ColorInit /\ HitIdle /\ CameraIdle /\ RenderIdle

NextColor ==
    \/ ColorCutoff /\ UNCHANGED <<hvars, gvars, rvars>>
    \/ ColorMiss /\ UNCHANGED <<hvars, gvars, rvars>>
    \/ ColorAbsorb /\ UNCHANGED <<hvars, gvars, rvars>>
    \/ ColorScatter /\ UNCHANGED <<hvars, gvars, rvars>>
    \/ ColorReturn /\ UNCHANGED <<hvars, gvars, rvars>>

SpecColor == InitColor /\ [][NextColor]_vars

InitCamera == CameraInit /\ HitIdle /\ ColorIdle /\ RenderIdle

NextCamera ==
    \/ GetRayFromCenter /\ UNCHANGED <<hvars, cvars, rvars>>
    \/ GetRayFromDisk /\ UNCHANGED <<hvars, cvars, rvars>>

SpecCamera == InitCamera /\ [][NextCamera]_vars

InitRender == RenderInit /\ HitIdle /\ ColorIdle /\ CameraIdle

NextRender ==
    \/ \E k \in Slots : RenderPixel(k) /\ UNCHANGED <<hvars, cvars, gvars>>
    \/ \E k \in Slots : PbInc(k) /\ UNCHANGED <<hvars, cvars, gvars>>
    \/ RenderFinish /\ UNCHANGED <<hvars, cvars, gvars>>
    \/ WritePixel /\ UNCHANGED <<hvars, cvars, gvars>>
    \/ RenderEnd /\ UNCHANGED <<hvars, cvars, gvars>>

SpecRender == InitRender /\ [][NextRender]_vars

====
